---- MODULE Spec2Model ----
(***************************************************************************)
(* A model of the sits.bi analytics dashboard.                             *)
(*                                                                         *)
(*   SpecKpi       compute_kpis (src/src/data_processing.py): the KPI      *)
(*                 columns it writes into the table it is given.           *)
(*   SpecApp       the Streamlit script of src/app.py: the session state,  *)
(*                 the navigation buttons, the upload gate and the         *)
(*                 memoized load_and_clean.                                *)
(*   SpecOverview  the score brackets of the OVERVIEW page (src/app.py).   *)
(*   SpecClassify  the column role classifier.  Its code (process_data,    *)
(*                 imported by src/app.py) is not among the source files;  *)
(*                 the decision procedure is taken from section 4.1 of the *)
(*                 specification.                                          *)
(*                                                                         *)
(* Text is modelled as a sequence of one-character strings so that         *)
(* lower-casing and substring search are computed, not assumed.            *)
(***************************************************************************)
EXTENDS Integers, Sequences, FiniteSets

VARIABLES
    \* ---- classifier ----
    table,        \* the names of the columns read so far, in order
    cur,          \* the column being classified (its name and its cells)
    partition,    \* role name -> list of column names (the classifier's output)
    roleLog,      \* per column, the roles written for it, in order
    working,      \* per column, whether its working values were replaced by parsed dates
    rule,         \* 0: between columns; 1..8: the rule about to be evaluated; 9: column classified
    outcome,      \* "running" | "returned" | "error"
    \* ---- compute_kpis ----
    heap,         \* object id -> table (column name -> list of cells)
    orig,         \* the caller's table as it was when compute_kpis was called
    kpc,          \* the statement compute_kpis is about to execute
    ret,          \* the object compute_kpis returned ("none" before it returns)
    \* ---- app.py ----
    current_page, \* st.session_state.current_page
    file_ref,     \* st.session_state.file_ref (NoFile: None)
    cache,        \* st.cache_data of load_and_clean: key -> processed table
    screen,       \* what the last script run rendered: "upload" | "OVERVIEW" | "DEPT" | "SUP"
    navShown,     \* whether the last script run offered the navigation buttons
    df,           \* the processed table the last script run rendered from
    computed,     \* how often load_and_clean's body ran since file_ref was last set
    uploads,      \* how many files were uploaded so far
    last,         \* the interaction that caused the last script run
    \* ---- OVERVIEW brackets ----
    scores,       \* the Average Score column of df
    brackets      \* the five bracket counts, or <<>> before they are computed

cvars == <<table, cur, partition, roleLog, working, rule, outcome>>
kvars == <<heap, orig, kpc, ret>>
avars == <<current_page, file_ref, cache, screen, navShown, df, computed, uploads, last>>
ovars == <<scores, brackets>>
vars == <<cvars, kvars, avars, ovars>>

----------------------------------------------------------------------------
(* Text helpers *)

UpperChars == <<"A","B","C","D","E","F","G","H","I","J","K","L","M",
                "N","O","P","Q","R","S","T","U","V","W","X","Y","Z">>
LowerChars == <<"a","b","c","d","e","f","g","h","i","j","k","l","m",
                "n","o","p","q","r","s","t","u","v","w","x","y","z">>
Digits == {"0","1","2","3","4","5","6","7","8","9"}

\* str.lower() on one character
LowerChar(c) ==
    IF \E i \in 1..26 : UpperChars[i] = c
    THEN LowerChars[CHOOSE i \in 1..26 : UpperChars[i] = c]
    ELSE c

\* str.lower()
Lower(s) == [i \in 1..Len(s) |-> LowerChar(s[i])]

\* kw in s  (substring test)
Contains(s, kw) ==
    \E i \in 1..(Len(s) - Len(kw) + 1) : SubSeq(s, i, i + Len(kw) - 1) = kw

RECURSIVE SumOver(_, _)
\* sum of f[x] over the finite set S
SumOver(f, S) ==
    IF S = {} THEN 0
    ELSE LET x == CHOOSE y \in S : TRUE IN f[x] + SumOver(f, S \ {x})

Range(s) == {s[i] : i \in 1..Len(s)}

----------------------------------------------------------------------------
(* Cells.  A cell is [tag, s, d]: "str" carries text s, "int" and "ts" carry *)
(* the number d (a timestamp as a day number), "nan" is a missing value and  *)
(* "nat" a missing timestamp.                                                *)

StrCell(s) == [tag |-> "str", s |-> s, d |-> 0]
IntCell(n) == [tag |-> "int", s |-> <<>>, d |-> n]
TsCell(n)  == [tag |-> "ts",  s |-> <<>>, d |-> n]
NaN        == [tag |-> "nan", s |-> <<>>, d |-> 0]
NaT        == [tag |-> "nat", s |-> <<>>, d |-> 0]

DigitSeq == <<"0","1","2","3","4","5","6","7","8","9">>
DigitVal(c) == (CHOOSE i \in 1..10 : DigitSeq[i] = c) - 1

\* the number written by the digits s[a..b]
RECURSIVE NumberAt(_, _, _)
NumberAt(s, a, b) ==
    IF b < a THEN 0 ELSE 10 * NumberAt(s, a, b - 1) + DigitVal(s[b])

IsLeap(y) == (y % 4 = 0 /\ y % 100 # 0) \/ y % 400 = 0
DaysInMonth(y, m) ==
    IF m = 2 THEN (IF IsLeap(y) THEN 29 ELSE 28)
    ELSE IF m \in {4, 6, 9, 11} THEN 30 ELSE 31

\* the text is an ISO date yyyy-mm-dd of the calendar
IsDateString(s) ==
    /\ Len(s) = 10
    /\ \A i \in {1,2,3,4,6,7,9,10} : s[i] \in Digits
    /\ s[5] = "-" /\ s[8] = "-"
    /\ LET y == NumberAt(s, 1, 4)  m == NumberAt(s, 6, 7)  d == NumberAt(s, 9, 10)
       IN  m \in 1..12 /\ d \in 1..DaysInMonth(y, m)

\* days since 1970-01-01 of the date y-m-d
DayNumber(y, m, d) ==
    LET yy  == IF m <= 2 THEN y - 1 ELSE y
        era == yy \div 400
        yoe == yy - era * 400
        mp  == IF m > 2 THEN m - 3 ELSE m + 9
        doy == (153 * mp + 2) \div 5 + d - 1
        doe == yoe * 365 + yoe \div 4 - yoe \div 100 + doy
    IN  era * 146097 + doe - 719468

\* str(x) of a cell: str(float('nan')) is 'nan'
Str(x) ==
    IF x.tag = "str" THEN x.s
    ELSE IF x.tag = "nan" THEN <<"n","a","n">>
    ELSE IF x.tag = "nat" THEN <<"N","a","T">>
    ELSE <<"#">>

\* pd.to_datetime(x, errors='coerce') on one cell
ToDatetime(x) ==
    IF x.tag = "ts" THEN x
    ELSE IF x.tag = "str" /\ IsDateString(x.s)
    THEN TsCell(DayNumber(NumberAt(x.s, 1, 4), NumberAt(x.s, 6, 7), NumberAt(x.s, 9, 10)))
    ELSE NaT

----------------------------------------------------------------------------
(* compute_kpis(data), src/src/data_processing.py *)

KpiRows == 2

S_done   == <<"d","o","n","e">>
S_closed == <<"c","l","o","s","e","d">>
S_yes    == <<"y","e","s">>

StatusValues ==
    { StrCell(<<"D","o","n","e">>), StrCell(<<"C","L","O","S","E","D">>), StrCell(S_closed),
      StrCell(<<"O","p","e","n">>), StrCell(<<" ","d","o","n","e">>), NaN }

\* the other input columns of a row: the four SLA flags and the two dates
AuxRows ==
    { [tto_passed |-> StrCell(S_yes), tto_over |-> StrCell(<<"n","o">>),
       ttr_passed |-> StrCell(<<"Y","e","s">>), ttr_over |-> NaN,
       closed |-> StrCell(<<"2","0","2","4","-","0","3","-","0","1">>),
       start |-> StrCell(<<"2","0","2","4","-","0","2","-","2","7">>)],
      [tto_passed |-> StrCell(<<"n","o">>), tto_over |-> StrCell(<<"Y","E","S">>),
       ttr_passed |-> NaN, ttr_over |-> StrCell(S_yes),
       closed |-> StrCell(<<"n","o","t"," ","s","e","t">>), start |-> NaN] }

InputColumns == {"Status", "SLA tto passed", "SLA tto over", "SLA ttr passed",
                 "SLA ttr over", "Closed date", "Start date"}

\* which of the input columns the uploaded sheet has
ColumnSets ==
    { {}, {"Status"}, {"Status", "SLA tto passed", "SLA ttr over"},
      {"SLA tto over", "SLA ttr passed", "Closed date"},
      {"Closed date", "Start date"}, InputColumns }

RowCell(st, aux, c) ==
    CASE c = "Status"         -> st
      [] c = "SLA tto passed" -> aux.tto_passed
      [] c = "SLA tto over"   -> aux.tto_over
      [] c = "SLA ttr passed" -> aux.ttr_passed
      [] c = "SLA ttr over"   -> aux.ttr_over
      [] c = "Closed date"    -> aux.closed
      [] c = "Start date"     -> aux.start

KpiTables ==
    { [c \in cs |-> [i \in 1..KpiRows |-> RowCell(st[i], aux[i], c)]] :
        cs \in ColumnSets, st \in [1..KpiRows -> StatusValues],
        aux \in [1..KpiRows -> AuxRows] }

CallerRef == "o1"

HasColumn(t, c) == c \in DOMAIN t

\* data[name] = col
SetColumn(t, name, col) ==
    [c \in (DOMAIN t) \cup {name} |-> IF c = name THEN col ELSE t[c]]


\* data[name] = 0: the scalar is written to every row
Broadcast(n) == [i \in 1..KpiRows |-> IntCell(n)]

DoneFlag(x) == IntCell(IF Lower(Str(x)) \in {S_done, S_closed} THEN 1 ELSE 0)

PendingFlagDoneOnly(x) == IntCell(IF Lower(Str(x)) \notin {S_done} THEN 1 ELSE 0)
PendingFlag(x) == IntCell(IF Lower(Str(x)) \notin {S_done, S_closed} THEN 1 ELSE 0)

YesFlag(x) == IntCell(IF Lower(Str(x)) = S_yes THEN 1 ELSE 0)

\* the lambda of the statement that writes column out
Lambda(out, x) ==
    CASE out = "Done Tasks"    -> DoneFlag(x)
      [] out = "Pending Tasks" -> PendingFlag(x)
      [] OTHER                 -> YesFlag(x)

\* data[c].apply(lambda) for the statement that writes column out
Apply(col, out) == [i \in 1..Len(col) |-> Lambda(out, col[i])]

\* pd.to_datetime(column, errors='coerce')
ToDatetimeColumn(col) == [i \in 1..Len(col) |-> ToDatetime(col[i])]

\* (closed - start).dt.days of one row
DurationDays(c, s) ==
    IF c.tag = "ts" /\ s.tag = "ts" THEN IntCell(c.d - s.d) ELSE NaN

\* one statement  data[out] = data[in].apply(F) if in in data.columns else 0
FlagStatement(here, next, in, out) ==
    /\ kpc = here
    /\ LET t == heap[CallerRef]
       IN  heap' = [heap EXCEPT ![CallerRef] =
                SetColumn(t, out, IF HasColumn(t, in) THEN Apply(t[in], out)
                                  ELSE Broadcast(0))]
    /\ kpc' = next
    /\ UNCHANGED <<orig, ret, cvars, avars, ovars>>

DoneTasks      == FlagStatement("done_tasks", "pending_tasks", "Status", "Done Tasks")
PendingTasks   == FlagStatement("pending_tasks", "tto_done", "Status", "Pending Tasks")
SlaTtoDone     == FlagStatement("tto_done", "tto_viol", "SLA tto passed", "SLA TTO Done")
SlaTtoViolated == FlagStatement("tto_viol", "ttr_done", "SLA tto over", "SLA TTO Violations")
SlaTtrDone     == FlagStatement("ttr_done", "ttr_viol", "SLA ttr passed", "SLA TTR Done")
SlaTtrViolated == FlagStatement("ttr_viol", "duration", "SLA ttr over", "SLA TTR Violations")

Duration ==
    /\ kpc = "duration"
    /\ LET t == heap[CallerRef]
       IN  IF HasColumn(t, "Closed date") /\ HasColumn(t, "Start date")
           THEN LET c  == ToDatetimeColumn(t["Closed date"])
                    s  == ToDatetimeColumn(t["Start date"])
                    t1 == SetColumn(t, "Closed date", c)
                    t2 == SetColumn(t1, "Start date", s)
                IN  heap' = [heap EXCEPT ![CallerRef] =
                        SetColumn(t2, "Duration (days)",
                                  [i \in 1..Len(c) |-> DurationDays(c[i], s[i])])]
           ELSE heap' = [heap EXCEPT ![CallerRef] =
                        SetColumn(t, "Duration (days)", [i \in 1..KpiRows |-> NaN])]
    /\ kpc' = "return"
    /\ UNCHANGED <<orig, ret, cvars, avars, ovars>>

Return ==
    /\ kpc = "return"
    /\ ret' = CallerRef
    /\ kpc' = "done"
    /\ UNCHANGED <<heap, orig, cvars, avars, ovars>>

KpiIdle == heap = <<>> /\ orig = <<>> /\ kpc = "off" /\ ret = "none"
ClassifyIdle ==
    /\ table = <<>> /\ cur = <<>> /\ partition = <<>> /\ roleLog = <<>> /\ working = <<>>
    /\ rule = 0 /\ outcome = "off"
AppIdle ==
    /\ current_page = "OVERVIEW" /\ file_ref = <<>> /\ cache = <<>>
    /\ screen = "off" /\ navShown = FALSE /\ df = <<>> /\ computed = 0 /\ uploads = 0
    /\ last = "off"
OverviewIdle == scores = <<>> /\ brackets = <<>>

KpiInit ==
    /\ \E t \in KpiTables : heap = [o \in {CallerRef} |-> t] /\ orig = t
    /\ kpc = "done_tasks"
    /\ ret = "none"
    /\ ClassifyIdle /\ AppIdle /\ OverviewIdle

KpiNext ==
    \/ DoneTasks \/ PendingTasks \/ SlaTtoDone \/ SlaTtoViolated
    \/ SlaTtrDone \/ SlaTtrViolated \/ Duration \/ Return

SpecKpi == KpiInit /\ [][KpiNext]_vars

----------------------------------------------------------------------------
(* The Streamlit script, src/app.py.  One action is one user interaction and  *)
(* the script run (with its st.rerun) that follows it.                        *)

MaxUploads == 3
NumContents == 2

Pages == {"OVERVIEW", "DEPT", "SUP"}

\* st.session_state.file_ref = None
NoFile == [name |-> "", content |-> 0]

\* the workbooks a user may upload: a file name and the sheet it holds
Files == [name : {"a.xlsx", "b.xlsx"}, content : 1..NumContents]

\* the body of load_and_clean: the processed table, a function of the sheet read
LoadAndCleanBody(f) == [sheet |-> f.content]

CacheKeyNameOnly(f) == <<f.name>>
\* st.cache_data keys the memoized result by the hash of the argument, which for an
\* uploaded file covers its name and its bytes
CacheKey(f) == <<f.name, f.content>>

Cached(f) == CacheKey(f) \in DOMAIN cache

\* df = load_and_clean(file_ref), followed by the page logic for page p
LoadAndRender(f, p) ==
    /\ IF Cached(f)
       THEN /\ df' = cache[CacheKey(f)]
            /\ UNCHANGED cache
       ELSE /\ cache' = [k \in (DOMAIN cache) \cup {CacheKey(f)} |->
                            IF k = CacheKey(f) THEN LoadAndCleanBody(f) ELSE cache[k]]
            /\ df' = LoadAndCleanBody(f)
    /\ navShown' = TRUE
    /\ screen' = p

PageAfterNewUploadReset(p) == "OVERVIEW"
\* NEW UPLOAD assigns file_ref only; current_page keeps its value
PageAfterNewUpload(p) == p

\* the file uploader returns a file: file_ref = up, st.rerun(), then a full run
Upload(f) ==
    /\ file_ref = NoFile
    /\ uploads < MaxUploads
    /\ file_ref' = f
    /\ LoadAndRender(f, current_page)
    /\ computed' = IF Cached(f) THEN 0 ELSE 1
    /\ uploads' = uploads + 1
    /\ last' = "upload"
    /\ UNCHANGED <<current_page, cvars, kvars, ovars>>

\* one of the buttons OVERVIEW, DEPARTMENT, SUPERVISOR
Navigate(p) ==
    /\ navShown
    /\ current_page' = p
    /\ LoadAndRender(file_ref, p)
    /\ computed' = IF Cached(file_ref) THEN computed ELSE computed + 1
    /\ last' = "nav"
    /\ UNCHANGED <<file_ref, uploads, cvars, kvars, ovars>>

\* the button NEW UPLOAD: file_ref = None, st.rerun(), the upload screen, st.stop()
NewUpload ==
    /\ navShown
    /\ file_ref' = NoFile
    /\ current_page' = PageAfterNewUpload(current_page)
    /\ navShown' = FALSE
    /\ screen' = "upload"
    /\ df' = <<>>
    /\ last' = "new"
    /\ UNCHANGED <<cache, computed, uploads, cvars, kvars, ovars>>

\* any other widget of a page (a search box, View Full Metrics, Review Team)
Interact ==
    /\ navShown
    /\ LoadAndRender(file_ref, current_page)
    /\ computed' = IF Cached(file_ref) THEN computed ELSE computed + 1
    /\ last' = "widget"
    /\ UNCHANGED <<current_page, file_ref, uploads, cvars, kvars, ovars>>

\* the first script run of a session: the session state is initialised and, with no
\* file, the upload screen is shown
AppInit ==
    /\ current_page = "OVERVIEW"
    /\ file_ref = NoFile
    /\ cache = <<>>
    /\ screen = "upload"
    /\ navShown = FALSE
    /\ df = <<>>
    /\ computed = 0
    /\ uploads = 0
    /\ last = "start"
    /\ ClassifyIdle /\ KpiIdle /\ OverviewIdle

AppNext ==
    \/ \E f \in Files : Upload(f)
    \/ \E p \in Pages : Navigate(p)
    \/ NewUpload
    \/ Interact

SpecApp == AppInit /\ [][AppNext]_vars

----------------------------------------------------------------------------
(* The score brackets of the OVERVIEW page, src/app.py.  A score is a fixed-  *)
(* point number: v counts units of 1/Scale, nan marks a missing score.         *)

OvRows == 2
Scale == 10

OutstandingMin  == 90
ExcellentMin    == 80
GoodMin         == 60
SatisfactoryMin == 50

Score(v) == [nan |-> FALSE, v |-> v]
NoScore  == [nan |-> TRUE, v |-> 0]

ScoreValues ==
    { Score(b * Scale) : b \in {SatisfactoryMin, GoodMin, ExcellentMin, OutstandingMin} }
    \cup
    { Score(b * Scale - 1) : b \in {SatisfactoryMin, GoodMin, ExcellentMin, OutstandingMin} }
    \cup
    { Score(0 - 5 * Scale), Score(0), Score(100 * Scale), Score(105 * Scale),
      Score(89 * Scale + Scale \div 2), NoScore }

\* df[score_col] >= n and df[score_col] < n on one row: a comparison with NaN is False
Ge(x, n) == ~x.nan /\ x.v >= n * Scale
Gt(x, n) == ~x.nan /\ x.v > n * Scale
Lt(x, n) == ~x.nan /\ x.v < n * Scale

IsOutstanding(x)  == Ge(x, OutstandingMin)
IsExcellentStrict(x) == Gt(x, ExcellentMin) /\ Lt(x, OutstandingMin)
IsExcellent(x)    == Ge(x, ExcellentMin) /\ Lt(x, OutstandingMin)
IsGood(x)         == Ge(x, GoodMin) /\ Lt(x, ExcellentMin)
IsSatisfactory(x) == Ge(x, SatisfactoryMin) /\ Lt(x, GoodMin)
IsPoor(x)         == Lt(x, SatisfactoryMin)

\* the mask of the b-th bracket on one row
InBracket(b, x) ==
    CASE b = 1 -> IsOutstanding(x)
      [] b = 2 -> IsExcellent(x)
      [] b = 3 -> IsGood(x)
      [] b = 4 -> IsSatisfactory(x)
      [] b = 5 -> IsPoor(x)

\* len(df[mask]) for the b-th bracket
CountRows(col, b) == Cardinality({i \in 1..Len(col) : InBracket(b, col[i])})

RenderOverview ==
    /\ brackets = <<>>
    /\ brackets' = [b \in 1..5 |-> CountRows(scores, b)]
    /\ UNCHANGED <<scores, cvars, kvars, avars>>

OverviewInit ==
    /\ scores \in [1..OvRows -> ScoreValues]
    /\ brackets = <<>>
    /\ ClassifyIdle /\ KpiIdle /\ AppIdle

OverviewNext == RenderOverview

SpecOverview == OverviewInit /\ [][OverviewNext]_vars

----------------------------------------------------------------------------
(* The column role classifier, classify(table).  A column is a name and the   *)
(* bag of its cells (how many rows hold each cell value): no rule depends on  *)
(* the order of the rows.                                                      *)

MaxCols == 2
SmallRows == 5
BigRows == 100
Window == 1

TDatePercent == 60
TNumPercent == 80

Roles == {"numeric", "categorical", "date", "identifier", "status"}

DateKeywords == { <<"d","a","t","e">>, <<"t","i","m","e">>, <<"s","t","a","r","t">>, <<"e","n","d">> }
IdKeywords ==
    { <<"i","d">>,
      <<"n","a","m","e">>,
      <<"r","e","f">>,
      <<"u","s","e","r">>,
      <<"a","g","e","n","t">>,
      <<"t","e","c","h","n","i","c","i","a","n">>,
      <<"c","a","l","l","e","r">> }
StatusVocabulary ==
    { <<"y","e","s">>,
      <<"n","o">>,
      <<"c","l","o","s","e","d">>,
      <<"o","p","e","n">>,
      <<"p","a","s","s","e","d">>,
      <<"f","a","i","l","e","d">>,
      <<"d","o","n","e">>,
      <<"p","e","n","d","i","n","g">> }

C_date   == StrCell(<<"2","0","2","4","-","0","1","-","0","5">>)
C_num    == StrCell(<<"4","2">>)
C_status == StrCell(<<"C","l","o","s","e","d">>)
C_text   == StrCell(<<"J","."," ","S","m","i","t","h">>)
C_number == IntCell(100)
C_stamp  == TsCell(19727)

CellUniverse == {NaN, C_number, C_stamp, C_date, C_num, C_status, C_text}

ColumnNames ==
    { <<"C","r","e","a","t","e","d","_","D","a","t","e">>,
      <<"S","t","a","t","u","s">>,
      <<"E","m","p","l","o","y","e","e","_","R","e","f">> }

\* the column holding k cells a, j cells b and m missing cells
Mix(a, k, b, j, m) ==
    [c \in CellUniverse |->
        (IF c = a THEN k ELSE 0) + (IF c = b THEN j ELSE 0) + (IF c = NaN THEN m ELSE 0)]

\* the success counts next to the two thresholds, of BigRows rows
NearThresholds ==
    { k \in 0..BigRows : \E t \in {TDatePercent, TNumPercent} :
        /\ 100 * k >= (t - Window) * BigRows
        /\ 100 * k <= (t + Window) * BigRows }

CellBags ==
    { Mix(a, k, C_text, SmallRows - k, 0) :
        a \in {C_date, C_num, C_status}, k \in 0..SmallRows }
    \cup { Mix(a, k, C_text, SmallRows - k, 0) :
        a \in {C_number, C_stamp}, k \in {SmallRows - 1, SmallRows} }
    \cup { Mix(a, k, C_text, BigRows - k, 0) : a \in {C_date, C_num}, k \in NearThresholds }
    \cup { Mix(a, k, C_status, SmallRows - k, 1) :
        a \in {C_date, C_num}, k \in {SmallRows - 2, SmallRows - 1} }
    \cup { Mix(NaN, 0, NaN, 0, m) : m \in {0, 2} }

Columns == [name : ColumnNames, cells : CellBags]

IsPresent(c) == c.tag # "nan"

\* the text is a number: digits only
IsNumberString(s) == Len(s) > 0 /\ \A i \in 1..Len(s) : s[i] \in Digits

\* an attempt to parse one cell as a date: "ok" or "fail", never an exception
TryParseDate(c) ==
    IF c.tag = "ts" \/ (c.tag = "str" /\ IsDateString(c.s)) THEN "ok" ELSE "fail"

TryCoerceNumberStrict(c) ==
    IF c.tag = "int" \/ (c.tag = "str" /\ IsNumberString(c.s)) THEN "ok" ELSE "raise"
\* an attempt to coerce one cell to a number: "ok" or "fail", never an exception
TryCoerceNumber(c) ==
    IF c.tag = "int" \/ (c.tag = "str" /\ IsNumberString(c.s)) THEN "ok" ELSE "fail"

DateParsed(c)   == IsPresent(c) /\ TryParseDate(c) = "ok"
NumberCoerced(c) == IsPresent(c) /\ TryCoerceNumber(c) = "ok"

IsStamp(c)  == c.tag = "ts"
IsNumber(c) == c.tag = "int"
IsStatusText(c) == c.tag = "str" /\ Lower(c.s) \in StatusVocabulary

\* the tests a rule counts cells by
CellIs(test, c) ==
    CASE test = "present" -> IsPresent(c)
      [] test = "stamp"   -> IsStamp(c)
      [] test = "number"  -> IsNumber(c)
      [] test = "date"    -> DateParsed(c)
      [] test = "coerced" -> NumberCoerced(c)
      [] test = "status"  -> IsStatusText(c)

\* how many cells of the column pass the test
CountWhere(col, test) ==
    SumOver([c \in CellUniverse |-> IF CellIs(test, c) THEN col.cells[c] ELSE 0],
            CellUniverse)

NonMissing(col) == CountWhere(col, "present")

\* the success fraction p/n exceeds pct percent; 0 of 0 is no match
Exceeds(p, n, pct) == n > 0 /\ 100 * p > pct * n

\* the lower-cased name contains one of the keywords
HasKeyword(name, kws) == \E kw \in kws : Contains(Lower(name), kw)

\* the condition of rule k of the decision procedure
RuleHolds(k, col) ==
    CASE k = 1 -> NonMissing(col) = 0
      [] k = 2 -> CountWhere(col, "stamp") = NonMissing(col)
      [] k = 3 -> CountWhere(col, "number") = NonMissing(col)
      [] k = 4 -> /\ HasKeyword(col.name, DateKeywords)
                  /\ Exceeds(CountWhere(col, "date"), NonMissing(col), TDatePercent)
      [] k = 5 -> Exceeds(CountWhere(col, "coerced"), NonMissing(col), TNumPercent)
      [] k = 6 -> CountWhere(col, "status") > 0
      [] k = 7 -> HasKeyword(col.name, IdKeywords)
      [] k = 8 -> TRUE

\* a parse or coercion of rule k raised instead of failing
Raises(k, col) ==
    \/ k = 4 /\ HasKeyword(col.name, DateKeywords)
             /\ \E c \in CellUniverse : col.cells[c] > 0 /\ IsPresent(c) /\ TryParseDate(c) = "raise"
    \/ k = 5 /\ \E c \in CellUniverse : col.cells[c] > 0 /\ IsPresent(c) /\ TryCoerceNumber(c) = "raise"

RoleOfRuleDropsEmpties(k) ==
    CASE k = 1 -> "none"  [] k \in {2, 4} -> "date"  [] k \in {3, 5} -> "numeric"
      [] k = 6 -> "status" [] k = 7 -> "identifier" [] k = 8 -> "categorical"
\* the role rule k assigns; a column with no values defaults to categorical
RoleOfRule(k) ==
    CASE k \in {1, 8} -> "categorical"  [] k \in {2, 4} -> "date"
      [] k \in {3, 5} -> "numeric"  [] k = 6 -> "status"  [] k = 7 -> "identifier"

ColumnDone == 9

AfterMatchFallsThrough(k) == k + 1
\* first match wins: the column is finished
AfterMatch(k) == ColumnDone

\* the column's name is added to the list of the role
Assign(p, role, name) ==
    IF role \in Roles THEN [p EXCEPT ![role] = Append(@, name)] ELSE p

Last == Len(table)

\* for col in table: the next column is read
NextColumn(col) ==
    /\ outcome = "running" /\ rule = 0
    /\ Len(table) < MaxCols
    /\ table' = Append(table, col.name)
    /\ cur' = col
    /\ roleLog' = Append(roleLog, <<>>)
    /\ working' = Append(working, FALSE)
    /\ rule' = 1
    /\ UNCHANGED <<partition, outcome, kvars, avars, ovars>>

\* rule k is evaluated on the current column
RuleStep(k) ==
    /\ outcome = "running" /\ rule = k /\ k < ColumnDone
    /\ IF Raises(k, cur)
       THEN /\ outcome' = "error"
            /\ rule' = ColumnDone
            /\ UNCHANGED <<partition, roleLog, working>>
       ELSE IF RuleHolds(k, cur)
       THEN /\ partition' = Assign(partition, RoleOfRule(k), cur.name)
            /\ roleLog' = [roleLog EXCEPT ![Last] = Append(@, RoleOfRule(k))]
            /\ working' = [working EXCEPT ![Last] = (k = 4)]
            /\ rule' = AfterMatch(k)
            /\ UNCHANGED outcome
       ELSE /\ rule' = k + 1
            /\ UNCHANGED <<partition, roleLog, working, outcome>>
    /\ UNCHANGED <<table, cur, kvars, avars, ovars>>

DropEmpties        == RuleStep(1)
NativeDateCheck    == RuleStep(2)
NativeNumericCheck == RuleStep(3)
KeywordDateParse   == RuleStep(4)
NumericCoercion    == RuleStep(5)
StatusValueCheck   == RuleStep(6)
IdentifierNameCheck == RuleStep(7)
DefaultCategorical == RuleStep(8)

\* the loop moves on from the classified column
EndColumn ==
    /\ outcome = "running" /\ rule = ColumnDone
    /\ rule' = 0
    /\ cur' = <<>>
    /\ UNCHANGED <<table, partition, roleLog, working, outcome, kvars, avars, ovars>>

\* every column is classified: the partition is returned
ReturnPartition ==
    /\ outcome = "running" /\ rule = 0
    /\ outcome' = "returned"
    /\ UNCHANGED <<table, cur, partition, roleLog, working, rule, kvars, avars, ovars>>

ClassifyInit ==
    /\ table = <<>>
    /\ cur = <<>>
    /\ partition = [r \in Roles |-> <<>>]
    /\ roleLog = <<>>
    /\ working = <<>>
    /\ rule = 0
    /\ outcome = "running"
    /\ KpiIdle /\ AppIdle /\ OverviewIdle

ClassifyNext ==
    \/ \E col \in Columns : NextColumn(col)
    \/ DropEmpties \/ NativeDateCheck \/ NativeNumericCheck \/ KeywordDateParse
    \/ NumericCoercion \/ StatusValueCheck \/ IdentifierNameCheck \/ DefaultCategorical
    \/ EndColumn
    \/ ReturnPartition

SpecClassify == ClassifyInit /\ [][ClassifyNext]_vars

----------------------------------------------------------------------------
(* Claims about compute_kpis *)

KpiDone == kpc = "done"
Result == heap[ret]

\* the status texts of the input universe that read 'done' or 'closed' when case is ignored
DoneSpellings ==
    { <<"D","o","n","e">>, <<"C","L","O","S","E","D">>, <<"c","l","o","s","e","d">> }

IsDoneStatus(x) == x.tag = "str" /\ x.s \in DoneSpellings

\* C5 (as claimed): when compute_kpis has returned, the table the caller passed in has
\* the same columns and the same cells as before the call.
C5_CallerTableUnchanged ==
    KpiDone => heap[CallerRef] = orig

\* C9: when compute_kpis has returned, every row has Done Tasks + Pending Tasks = 1 with
\* Done Tasks = 1 exactly for a status that reads 'done' or 'closed' ignoring case (a
\* missing status is pending) if the table has a Status column, and Done Tasks =
\* Pending Tasks = 0 in every row if it has none.
C9_DonePendingExclusive ==
    KpiDone =>
        LET t == Result IN
        /\ Len(t["Done Tasks"]) = KpiRows /\ Len(t["Pending Tasks"]) = KpiRows
        /\ \A i \in 1..KpiRows :
            IF HasColumn(orig, "Status")
            THEN /\ t["Done Tasks"][i].d + t["Pending Tasks"][i].d = 1
                 /\ t["Done Tasks"][i].d = 1 <=> IsDoneStatus(orig["Status"][i])
                 /\ orig["Status"][i] = NaN => t["Pending Tasks"][i].d = 1
            ELSE t["Done Tasks"][i].d = 0 /\ t["Pending Tasks"][i].d = 0

\* a returned table with a 'CLOSED' row counted done and a missing status counted pending
C9_Witness ==
    /\ KpiDone
    /\ HasColumn(orig, "Status")
    /\ \E i, j \in 1..KpiRows :
        /\ orig["Status"][i] = StrCell(<<"C","L","O","S","E","D">>)
        /\ Result["Done Tasks"][i].d = 1
        /\ orig["Status"][j] = NaN
        /\ Result["Pending Tasks"][j].d = 1

----------------------------------------------------------------------------
(* Claims about the Streamlit script *)

C8_StateInv ==
    /\ current_page \in Pages
    /\ navShown <=> file_ref # NoFile
    /\ screen \in Pages <=> file_ref # NoFile
    /\ file_ref = NoFile => screen = "upload" /\ df = <<>>
    /\ screen \in Pages => screen = current_page

C8_NewUploadKeepsPage ==
    (file_ref # NoFile /\ file_ref' = NoFile) => current_page' = current_page

C8_UploadShowsSelectedPage ==
    (file_ref = NoFile /\ file_ref' # NoFile) =>
        current_page' = current_page /\ screen' = current_page

\* C8: current_page is always one of OVERVIEW, DEPT, SUP; the navigation buttons and a
\* page are shown exactly while file_ref is set, and the upload screen otherwise; NEW
\* UPLOAD clears file_ref and keeps current_page, and the upload that follows shows
\* the page that was selected before.
C8_PageAndGate ==
    /\ []C8_StateInv
    /\ [][C8_NewUploadKeepsPage /\ C8_UploadShowsSelectedPage]_vars

\* the DEPT page shown right after the second upload, never clicked since
C8_Witness ==
    last = "upload" /\ uploads = 2 /\ screen = "DEPT" /\ navShown

\* C10: the five bracket counts of the OVERVIEW page sum to the number of rows that
\* have a score, and every such row meets exactly one bracket condition.
C10_BracketsPartition ==
    brackets # <<>> =>
        /\ brackets[1] + brackets[2] + brackets[3] + brackets[4] + brackets[5]
              = Cardinality({i \in 1..OvRows : ~scores[i].nan})
        /\ brackets[1] = Cardinality({i \in 1..OvRows :
                              ~scores[i].nan /\ scores[i].v >= 90 * Scale})
        /\ brackets[2] = Cardinality({i \in 1..OvRows :
                              ~scores[i].nan /\ scores[i].v >= 80 * Scale
                                             /\ scores[i].v < 90 * Scale})
        /\ brackets[3] = Cardinality({i \in 1..OvRows :
                              ~scores[i].nan /\ scores[i].v >= 60 * Scale
                                             /\ scores[i].v < 80 * Scale})
        /\ brackets[4] = Cardinality({i \in 1..OvRows :
                              ~scores[i].nan /\ scores[i].v >= 50 * Scale
                                             /\ scores[i].v < 60 * Scale})
        /\ brackets[5] = Cardinality({i \in 1..OvRows :
                              ~scores[i].nan /\ scores[i].v < 50 * Scale})

\* a table with a score of exactly 80 and one of 89.5, both counted Excellent
C10_Witness ==
    /\ brackets # <<>>
    /\ \E i, j \in 1..OvRows :
        scores[i] = Score(80 * Scale) /\ scores[j] = Score(89 * Scale + Scale \div 2)
    /\ brackets[2] = 2

----------------------------------------------------------------------------
(* Claims about the column role classifier *)

N_Created_Date == <<"C","r","e","a","t","e","d","_","D","a","t","e">>
N_Employee_Ref == <<"E","m","p","l","o","y","e","e","_","R","e","f">>

\* how often x occurs in the list s
Occurrences(s, x) == Cardinality({i \in 1..Len(s) : s[i] = x})

\* the current column has its role and no attempt raised
Classified == rule = ColumnDone /\ outcome = "running"
\* no column is half-way through the rules
Settled == rule \in {0, ColumnDone} /\ outcome # "error"

RoleSet(r) == Range(partition[r])

\* C1 (as claimed): the union of the five role sets is the set of input column names
\* and no column name appears in two of them.
C1_NamesPartitioned ==
    Settled =>
        /\ UNION {RoleSet(r) : r \in Roles} = Range(table)
        /\ \A r1, r2 \in Roles : r1 # r2 => RoleSet(r1) \cap RoleSet(r2) = {}

\* C1 (amended): every column gets exactly one role: a name is listed in the five role
\* lists together exactly as often as the table has columns of that name, so the union
\* of the role sets is the set of input column names; and no name appears in two role
\* sets when the column names of the table are distinct.
C1_ColumnsPartitioned ==
    Settled =>
        /\ \A x \in ColumnNames :
              SumOver([r \in Roles |-> Occurrences(partition[r], x)], Roles)
                  = Occurrences(table, x)
        /\ UNION {RoleSet(r) : r \in Roles} = Range(table)
        /\ Cardinality(Range(table)) = Len(table) =>
              \A r1, r2 \in Roles : r1 # r2 => RoleSet(r1) \cap RoleSet(r2) = {}

\* two columns of one name, the second with only missing cells, in different role sets
C1_Witness ==
    /\ Classified
    /\ Len(table) = 2 /\ table[1] = table[2]
    /\ NonMissing(cur) = 0 /\ cur.cells[NaN] = 2
    /\ cur.name \in RoleSet("categorical")
    /\ \E r \in Roles \ {"categorical"} : cur.name \in RoleSet(r)

\* the role of the first rule, in the claimed order, whose condition holds
FirstMatchRole(col) ==
    IF RuleHolds(2, col) THEN "date"
    ELSE IF RuleHolds(3, col) THEN "numeric"
    ELSE IF RuleHolds(4, col) THEN "date"
    ELSE IF RuleHolds(5, col) THEN "numeric"
    ELSE IF RuleHolds(6, col) THEN "status"
    ELSE IF RuleHolds(7, col) THEN "identifier"
    ELSE "categorical"

AllNativeNumeric(col) == NonMissing(col) > 0 /\ col.cells[C_number] = NonMissing(col)

TextOnly(col) == NonMissing(col) > 0 /\ col.cells[C_number] = 0 /\ col.cells[C_stamp] = 0

\* C3 (as claimed): a text column with a date keyword in its name is Date when exactly
\* 60% of its values parse as dates, and is not Date when 59% do.
C3_DateThresholdInclusive ==
    (Classified /\ TextOnly(cur) /\ HasKeyword(cur.name, DateKeywords)) =>
        LET p == CountWhere(cur, "date")
            n == NonMissing(cur)
        IN  /\ 100 * p = 60 * n => roleLog[Last] = <<"date">>
            /\ 100 * p = 59 * n => roleLog[Last] # <<"date">>

\* C4 (as claimed): a text column that is not Date is Numeric when exactly 80% of its
\* values coerce to numbers, and is not Numeric when 79% do.
C4_NumericThresholdInclusive ==
    (Classified /\ TextOnly(cur) /\ roleLog[Last] # <<"date">>) =>
        LET k == CountWhere(cur, "coerced")
            n == NonMissing(cur)
        IN  /\ 100 * k = 80 * n => roleLog[Last] = <<"numeric">>
            /\ 100 * k = 79 * n => roleLog[Last] # <<"numeric">>

\* C6: classification never ends in an error; a column with only missing cells matches
\* neither threshold rule (0 of 0 is no match) and still gets a role; every classified
\* column has exactly one of the five roles.
C6_NeverFails ==
    /\ outcome # "error"
    /\ Settled => \A i \in 1..Len(table) :
                      Len(roleLog[i]) = 1 /\ roleLog[i][1] \in Roles
    /\ (Classified /\ NonMissing(cur) = 0) =>
          /\ ~RuleHolds(4, cur) /\ ~RuleHolds(5, cur)
          /\ \E r \in Roles : cur.name \in RoleSet(r)

\* a column named Created_Date with two missing cells and nothing else, classified, and
\* before it a column in which a coercion to number failed
C6_Witness ==
    /\ Classified
    /\ Len(table) = 2
    /\ cur.name = N_Created_Date
    /\ NonMissing(cur) = 0 /\ cur.cells[NaN] = 2
    /\ roleLog[Last] = <<"categorical">>
    /\ roleLog[1] \in {<<"status">>, <<"identifier">>}

====
